---- MODULE Spec2Model ----
(***************************************************************************)
(* A model of src/src/app.ts: the validate function, the ProjectState      *)
(* store (addListener, addProject and its listener fan-out), and the       *)
(* ProjectForm / ProjectList / ProjectItem components as far as they read  *)
(* and write the store and the rendered lists.                             *)
(*                                                                         *)
(* JavaScript values are modelled as follows.                              *)
(*  - A string is a sequence of one-character strings.                     *)
(*  - A number is a record [nan, c]: NaN, or the value c/100 (hundredths), *)
(*    which is exact for every number the inputs below can produce.        *)
(*  - An array and a Project object live in a heap (arrays, objects) and   *)
(*    are referred to by their index, so that two holders of the same      *)
(*    array or object see each other's writes.                             *)
(***************************************************************************)
EXTENDS Integers, Sequences, FiniteSets, TLC

VARIABLES
    objects,    \* heap of Project objects; a Project reference is an index
    arrays,     \* heap of arrays of Project references; arrays[projects] is the store's
    listeners,  \* State.listeners, in registration order
    form,       \* the three input elements' values
    assigned,   \* ProjectList.assignedProjects of the two lists
    dom,        \* the rendered <li> items under the two <ul> elements
    last,       \* what the last handler did (its alert, its calls, in order)
    rule,       \* the Validatable handed to validate
    verdict     \* what validate returned for it

vars == <<objects, arrays, listeners, form, assigned, dom, last, rule, verdict>>

----------------------------------------------------------------------------
(* Bounds of the model. *)

MaxProjects == 2
MaxListeners == 2
MaxLen == 3
MaxBound == 2

----------------------------------------------------------------------------
(* Strings *)

WhiteSpace == {" ", "\t"}

RECURSIVE TrimStart(_)
TrimStart(s) ==
    IF s # <<>> /\ Head(s) \in WhiteSpace THEN TrimStart(Tail(s)) ELSE s

RECURSIVE TrimEnd(_)
TrimEnd(s) ==
    IF s # <<>> /\ s[Len(s)] \in WhiteSpace
    THEN TrimEnd(SubSeq(s, 1, Len(s) - 1))
    ELSE s

\* String.prototype.trim
Trim(s) == TrimEnd(TrimStart(s))

----------------------------------------------------------------------------
(* Numbers *)

DigitChars == <<"0", "1", "2", "3", "4", "5", "6", "7", "8", "9">>

IsDigit(ch) == \E i \in 1..10 : DigitChars[i] = ch

DigitValue(ch) == (CHOOSE i \in 1..10 : DigitChars[i] = ch) - 1

NaN == [nan |-> TRUE, c |-> 0]

\* the number k (an integer literal of the source)
Num(k) == [nan |-> FALSE, c |-> 100 * k]

\* the number h/100
Hundredths(h) == [nan |-> FALSE, c |-> h]

RECURSIVE DigitsValue(_)
DigitsValue(s) ==
    IF s = <<>> THEN 0
    ELSE 10 * DigitsValue(SubSeq(s, 1, Len(s) - 1)) + DigitValue(s[Len(s)])

\* the value, in hundredths, of the digits after the decimal point
FractionValue(s) ==
    IF Len(s) = 0 THEN 0
    ELSE IF Len(s) = 1 THEN 10 * DigitValue(s[1])
    ELSE 10 * DigitValue(s[1]) + DigitValue(s[2])

\* an unsigned StrDecimalLiteral: digits, digits.digits, digits. or .digits
UnsignedToNumber(s) ==
    LET dots == {i \in 1..Len(s) : s[i] = "."}
        dot == IF dots = {} THEN Len(s) + 1 ELSE CHOOSE i \in dots : TRUE
        whole == SubSeq(s, 1, dot - 1)
        frac == SubSeq(s, dot + 1, Len(s))
    IN  IF \/ Cardinality(dots) > 1
           \/ \E i \in 1..Len(s) : s[i] # "." /\ ~IsDigit(s[i])
           \/ Len(whole) + Len(frac) = 0
        THEN NaN
        ELSE Hundredths(100 * DigitsValue(whole) + FractionValue(frac))

\* the unary plus of the source applied to a string (ToNumber): white space
\* is stripped, the empty string is 0, a decimal literal with an optional
\* sign is its value, and anything else is NaN.  Exact for strings over
\* digits, ".", "-", white space and letters other than those of "Infinity",
\* exponents and radix prefixes, with at most two digits after the point.
StringToNumber(s) ==
    LET t == Trim(s)
    IN  IF t = <<>> THEN Num(0)
        ELSE IF Head(t) = "-"
             THEN LET u == UnsignedToNumber(Tail(t))
                  IN  IF u.nan THEN NaN ELSE Hundredths(0 - u.c)
             ELSE UnsignedToNumber(t)

RECURSIVE NatToString(_)
NatToString(k) ==
    IF k < 10 THEN <<DigitChars[k + 1]>>
    ELSE NatToString(k \div 10) \o <<DigitChars[(k % 10) + 1]>>

\* Number.prototype.toString
NumberToString(n) ==
    IF n.nan THEN <<"N", "a", "N">>
    ELSE LET a == IF n.c < 0 THEN 0 - n.c ELSE n.c
             f == a % 100
             fracPart == IF f = 0 THEN <<>>
                         ELSE IF f % 10 = 0 THEN <<".", DigitChars[(f \div 10) + 1]>>
                         ELSE <<".", DigitChars[(f \div 10) + 1], DigitChars[(f % 10) + 1]>>
         IN  (IF n.c < 0 THEN <<"-">> ELSE <<>>) \o NatToString(a \div 100) \o fracPart

\* n >= m and n <= m of the source: false when either side is NaN
NumGE(n, m) == ~n.nan /\ ~m.nan /\ n.c >= m.c
NumLE(n, m) == ~n.nan /\ ~m.nan /\ n.c <= m.c

IsInteger(n) == ~n.nan /\ n.c % 100 = 0

----------------------------------------------------------------------------
(* Validation: interface Validatable and the validate function *)

\* a value of type string | number
StrVal(s) == [t |-> "string", s |-> s, n |-> Num(0)]
NumVal(n) == [t |-> "number", s |-> <<>>, n |-> n]

\* an optional property: absent, or present with value v
Unset == [set |-> FALSE, v |-> 0]
UnsetFlag == [set |-> FALSE, v |-> FALSE]
Set(v) == [set |-> TRUE, v |-> v]

Validatable(value, require, minLength, maxLength, min, max) ==
    [value |-> value, require |-> require, minLength |-> minLength,
     maxLength |-> maxLength, min |-> min, max |-> max]

\* value.toString()
ValueToString(value) ==
    IF value.t = "string" THEN value.s ELSE NumberToString(value.n)

validateNoTrim(v) ==
    LET c1 == IF v.require.set /\ v.require.v
              THEN Len(ValueToString(v.value)) # 0 ELSE TRUE
        c2 == IF v.minLength.set /\ v.value.t = "string"
              THEN Len(v.value.s) >= v.minLength.v ELSE TRUE
        c3 == IF v.maxLength.set /\ v.value.t = "string"
              THEN Len(v.value.s) <= v.maxLength.v ELSE TRUE
        c4 == IF v.min.set /\ v.value.t = "number"
              THEN NumGE(v.value.n, Num(v.min.v)) ELSE TRUE
        c5 == IF v.max.set /\ v.value.t = "number"
              THEN NumLE(v.value.n, Num(v.max.v)) ELSE TRUE
    IN  c1 /\ c2 /\ c3 /\ c4 /\ c5

validate(v) ==
    LET c1 == IF v.require.set /\ v.require.v
              THEN Len(ValueToString(v.value)) # 0 ELSE TRUE
        c2 == IF v.minLength.set /\ v.value.t = "string"
              THEN Len(Trim(v.value.s)) >= v.minLength.v ELSE TRUE
        c3 == IF v.maxLength.set /\ v.value.t = "string"
              THEN Len(Trim(v.value.s)) <= v.maxLength.v ELSE TRUE
        c4 == IF v.min.set /\ v.value.t = "number"
              THEN NumGE(v.value.n, Num(v.min.v)) ELSE TRUE
        c5 == IF v.max.set /\ v.value.t = "number"
              THEN NumLE(v.value.n, Num(v.max.v)) ELSE TRUE
    IN  c1 /\ c2 /\ c3 /\ c4 /\ c5

----------------------------------------------------------------------------
(* Project and ProjectState *)

Active == "Active"
Finished == "Finished"

\* new Project(id, title, description, numberOfPeople, ProjectStatus.Active)
NewProjectFinished(id, title, desc, numberOfPeople) ==
    [id |-> id, title |-> title, description |-> desc,
     numberOfPeople |-> numberOfPeople, status |-> Finished]

NewProject(id, title, desc, numberOfPeople) ==
    [id |-> id, title |-> title, description |-> desc,
     numberOfPeople |-> numberOfPeople, status |-> Active]

\* Math.random(): some number in [0, 1)
RandomNumbers == {Hundredths(25), Hundredths(50)}

\* ProjectState.projects: the array allocated when the store is constructed
projects == 1

\* the Project objects the store holds, in the store's order
StoreProjects == [k \in 1..Len(arrays[projects]) |-> objects[arrays[projects][k]]]

\* Array.prototype.push on the array ref
PushReplacingLast(arrs, ref, x) ==
    [arrs EXCEPT ![ref] =
        IF @ = <<>> THEN <<x>> ELSE [@ EXCEPT ![Len(@)] = x]]

Push(arrs, ref, x) == [arrs EXCEPT ![ref] = Append(@, x)]

\* this.projects.slice(): a new array with the same elements
SliceLive(arrs) == [arrays |-> arrs, ref |-> projects]

Slice(arrs) == [arrays |-> Append(arrs, arrs[projects]), ref |-> Len(arrs) + 1]

Reverse(s) == [k \in 1..Len(s) |-> s[Len(s) + 1 - k]]

\* the order in which for (const listener of this.listeners) visits n listeners
ListenerOrderReversed(n) == [k \in 1..n |-> n + 1 - k]
ListenerOrderSkipFirst(n) == [k \in 1..(n - 1) |-> k + 1]

ListenerOrder(n) == [k \in 1..n |-> k]

\* a function of type Listener<Project>, with what it has been handed so far:
\* received are the arrays it was called with, seen their elements at the call,
\* regAt the number of projects at its registration, calls the number of calls
NewListener(kind, regAt) ==
    [kind |-> kind, regAt |-> regAt, calls |-> 0, received |-> <<>>, seen |-> <<>>]

ListKinds == {"active", "finished"}

\* what a listener outside this file may do with its argument
ArrayClientKinds == {"keep", "pop", "push", "reverse"}
ClientKinds == ArrayClientKinds \cup {"write"}

----------------------------------------------------------------------------
(* ProjectItem and ProjectList *)

TeamMembers == <<" ", "t", "e", "a", "m", " ", "m", "e", "m", "b", "e", "r", "s">>

\* new ProjectItem(containerId, project): the <li> with its id and its texts
ProjectItem(project) ==
    [id |-> project.id,
     h2 |-> project.title,
     h3 |-> NumberToString(project.numberOfPeople) \o TeamMembers,
     p  |-> project.description]

\* projects.filter(...) in the listener of the list of the given type
RelevantProject(type, objs, snapshot) ==
    SelectSeq(snapshot,
              LAMBDA a : IF type = "active" THEN objs[a].status = Active
                         ELSE objs[a].status = Finished)

\* ProjectList.renderProject: the <ul>'s children after it ran
renderProjectNoClear(old, objs, assignedProjects) ==
    old \o [k \in 1..Len(assignedProjects) |-> ProjectItem(objs[assignedProjects[k]])]

renderProject(old, objs, assignedProjects) ==
    [k \in 1..Len(assignedProjects) |-> ProjectItem(objs[assignedProjects[k]])]

----------------------------------------------------------------------------
(* The listener fan-out of addProject *)

\* st is the part of the state a handler works on:
\* [objects, arrays, listeners, assigned, dom, log]

Event(ev, who, arg) == [ev |-> ev, who |-> who, arg |-> arg]

\* the body of listener i, called with the array ref
ListenerBody(i, ref, st) ==
    LET l == st.listeners[i]
        arg == st.arrays[ref]
        called == [l EXCEPT !.calls = @ + 1]
        kept == [called EXCEPT !.received = Append(@, ref), !.seen = Append(@, arg)]
    IN  IF l.kind \in ListKinds
        THEN LET rel == RelevantProject(l.kind, st.objects, arg)
             IN  [st EXCEPT !.listeners[i] = called,
                            !.assigned[l.kind] = rel,
                            !.dom[l.kind] = renderProject(@, st.objects, rel)]
        ELSE IF l.kind = "pop"
        THEN [st EXCEPT !.listeners[i] = kept,
                        !.arrays[ref] = SubSeq(@, 1, Len(@) - 1)]
        ELSE IF l.kind = "push"
        THEN [st EXCEPT !.listeners[i] = kept,
                        !.arrays[ref] = IF @ = <<>> THEN @ ELSE Append(@, @[1])]
        ELSE IF l.kind = "reverse"
        THEN [st EXCEPT !.listeners[i] = kept, !.arrays[ref] = Reverse(@)]
        ELSE IF l.kind = "write" /\ arg # <<>>
        THEN [st EXCEPT !.listeners[i] = kept,
                        !.objects[arg[1]].status = Finished]
        ELSE [st EXCEPT !.listeners[i] = kept]

\* listener(this.projects.slice())
CallListener(i, st) ==
    LET snap == Slice(st.arrays)
        st1 == [st EXCEPT !.arrays = snap.arrays,
                          !.log = Append(@, Event("listener", i, snap.arrays[snap.ref]))]
    IN  ListenerBody(i, snap.ref, st1)

RECURSIVE CallListeners(_, _)
CallListeners(order, st) ==
    IF order = <<>> THEN st
    ELSE CallListeners(Tail(order), CallListener(Head(order), st))

\* ProjectState.addProject
addProject(title, desc, numberOfPeople, random, st) ==
    LET newProject == NewProject(NumberToString(random), title, desc, numberOfPeople)
        ref == Len(st.objects) + 1
        st1 == [st EXCEPT !.objects = Append(@, newProject),
                          !.arrays = Push(@, projects, ref),
                          !.log = Append(@, Event("push", 0, <<ref>>))]
    IN  CallListeners(ListenerOrder(Len(st1.listeners)), st1)

\* ProjectState.addListener
addListener(ls, kind, regAt) == Append(ls, NewListener(kind, regAt))

----------------------------------------------------------------------------
(* ProjectForm *)

MinDescriptionLength == 5
MinPeople == 1
MaxPeople == 6

EmptyString == <<>>
BuildAPI == <<"B", "u", "i", "l", "d", " ", "A", "P", "I">>
DesignAndImplement ==
    <<"D", "e", "s", "i", "g", "n", " ", "a", "n", "d", " ",
      "i", "m", "p", "l", "e", "m", "e", "n", "t">>

\* what the user may have typed into the three inputs
TitleInputs == {EmptyString, <<" ">>, BuildAPI}
DescriptionInputs ==
    {EmptyString, <<"h", "i">>, <<"a", "b", "c", "d", " ">>, DesignAndImplement}
PeopleInputs ==
    {EmptyString, <<"3">>, <<"7">>, <<"2", ".", "5">>, <<"a", "b", "c">>}

\* ProjectForm.gatherInputs: the tuple it returns, or void after the alert
gatherInputsNoPeopleRule(f) ==
    LET validatableTitle ==
            Validatable(StrVal(f.title), Set(TRUE), Unset, Unset, Unset, Unset)
        validatableDescription ==
            Validatable(StrVal(f.description), Set(TRUE),
                        Set(MinDescriptionLength), Unset, Unset, Unset)
        invalid == \/ ~validate(validatableTitle)
                   \/ ~validate(validatableDescription)
    IN  [ok |-> ~invalid, alert |-> invalid,
         title |-> f.title, desc |-> f.description,
         people |-> StringToNumber(f.people)]

gatherInputs(f) ==
    LET titleInput == f.title
        descriptionInput == f.description
        peopleInput == f.people
        validatableTitle ==
            Validatable(StrVal(titleInput), Set(TRUE), Unset, Unset, Unset, Unset)
        validatableDescription ==
            Validatable(StrVal(descriptionInput), Set(TRUE),
                        Set(MinDescriptionLength), Unset, Unset, Unset)
        validatablePeople ==
            Validatable(NumVal(StringToNumber(peopleInput)), Set(TRUE),
                        Unset, Unset, Set(MinPeople), Set(MaxPeople))
        invalid == \/ ~validate(validatableTitle)
                   \/ ~validate(validatableDescription)
                   \/ ~validate(validatablePeople)
    IN  [ok |-> ~invalid, alert |-> invalid,
         title |-> titleInput, desc |-> descriptionInput,
         people |-> StringToNumber(peopleInput)]

\* ProjectForm.clearInputs
clearInputs == [title |-> EmptyString, description |-> EmptyString, people |-> EmptyString]

----------------------------------------------------------------------------
(* The state and its handlers *)

NoArgs == [title |-> EmptyString, desc |-> EmptyString, people |-> Num(0)]

Done(op, alert, log, args) == [op |-> op, alert |-> alert, log |-> log, args |-> args]

NoRule == Validatable(StrVal(EmptyString), UnsetFlag, Unset, Unset, Unset, Unset)
NoVerdict == [done |-> FALSE, value |-> FALSE]

State == [objects |-> objects, arrays |-> arrays, listeners |-> listeners,
          assigned |-> assigned, dom |-> dom, log |-> <<>>]

\* the store after construction, with no listener
InitStore ==
    /\ objects = <<>>
    /\ arrays = << <<>> >>
    /\ listeners = <<>>
    /\ form = clearInputs
    /\ assigned = [active |-> <<>>, finished |-> <<>>]
    /\ dom = [active |-> <<>>, finished |-> <<>>]
    /\ last = Done("load", FALSE, <<>>, NoArgs)
    /\ rule = NoRule
    /\ verdict = NoVerdict

\* the page after the script ran: the form and the two lists are constructed
\* and each list has registered its listener, the active list first
Init ==
    /\ objects = <<>>
    /\ arrays = << <<>> >>
    /\ listeners = addListener(addListener(<<>>, "active", 0), "finished", 0)
    /\ form = clearInputs
    /\ assigned = [active |-> <<>>, finished |-> <<>>]
    /\ dom = [active |-> <<>>, finished |-> <<>>]
    /\ last = Done("load", FALSE, <<>>, NoArgs)
    /\ rule = NoRule
    /\ verdict = NoVerdict

\* the user edits an input element
SetTitle(s) ==
    /\ form' = [form EXCEPT !.title = s]
    /\ last' = Done("input", FALSE, <<>>, NoArgs)
    /\ UNCHANGED <<objects, arrays, listeners, assigned, dom, rule, verdict>>

SetDescription(s) ==
    /\ form' = [form EXCEPT !.description = s]
    /\ last' = Done("input", FALSE, <<>>, NoArgs)
    /\ UNCHANGED <<objects, arrays, listeners, assigned, dom, rule, verdict>>

SetPeople(s) ==
    /\ form' = [form EXCEPT !.people = s]
    /\ last' = Done("input", FALSE, <<>>, NoArgs)
    /\ UNCHANGED <<objects, arrays, listeners, assigned, dom, rule, verdict>>

\* ProjectForm.handleSubmit
handleSubmit ==
    LET userInputs == gatherInputs(form)
        args == [title |-> userInputs.title, desc |-> userInputs.desc,
                 people |-> userInputs.people]
    IN  IF userInputs.ok
        THEN /\ Len(arrays[projects]) < MaxProjects
             /\ \E random \in RandomNumbers :
                  LET st == addProject(userInputs.title, userInputs.desc,
                                       userInputs.people, random, State)
                  IN  /\ objects' = st.objects
                      /\ arrays' = st.arrays
                      /\ listeners' = st.listeners
                      /\ assigned' = st.assigned
                      /\ dom' = st.dom
                      /\ last' = Done("submit", FALSE, st.log, args)
             /\ form' = clearInputs
             /\ UNCHANGED <<rule, verdict>>
        ELSE /\ last' = Done("submit", userInputs.alert, <<>>, args)
             /\ UNCHANGED <<objects, arrays, listeners, form, assigned, dom,
                            rule, verdict>>

Next ==
    \/ \E s \in TitleInputs : SetTitle(s)
    \/ \E s \in DescriptionInputs : SetDescription(s)
    \/ \E s \in PeopleInputs : SetPeople(s)
    \/ handleSubmit

Spec == Init /\ [][Next]_vars

----------------------------------------------------------------------------
(* The store called by any client *)

\* arguments a caller may pass: well-formed ones and ones no form rule admits
StoreArguments ==
    {[title |-> BuildAPI, desc |-> DesignAndImplement, people |-> Num(3)],
     [title |-> EmptyString, desc |-> <<"h", "i">>, people |-> NaN]}

AddListener(kind) ==
    /\ Len(listeners) < MaxListeners
    /\ listeners' = addListener(listeners, kind, Len(arrays[projects]))
    /\ last' = Done("addListener", FALSE, <<>>, NoArgs)
    /\ UNCHANGED <<objects, arrays, form, assigned, dom, rule, verdict>>

AddProject(title, desc, numberOfPeople) ==
    /\ Len(arrays[projects]) < MaxProjects
    /\ \E random \in RandomNumbers :
         LET st == addProject(title, desc, numberOfPeople, random, State)
         IN  /\ objects' = st.objects
             /\ arrays' = st.arrays
             /\ listeners' = st.listeners
             /\ assigned' = st.assigned
             /\ dom' = st.dom
             /\ last' = Done("addProject", FALSE, st.log,
                             [title |-> title, desc |-> desc, people |-> numberOfPeople])
    /\ UNCHANGED <<form, rule, verdict>>

AddAnyProject ==
    \E a \in StoreArguments : AddProject(a.title, a.desc, a.people)

NextStore ==
    \/ \E kind \in ArrayClientKinds : AddListener(kind)
    \/ AddAnyProject

SpecStore == InitStore /\ [][NextStore]_vars

NextClient ==
    \/ \E kind \in ClientKinds : AddListener(kind)
    \/ AddAnyProject

SpecClient == InitStore /\ [][NextClient]_vars

----------------------------------------------------------------------------
(* validate applied to any rule *)

\* the strings of length k over the given characters
RECURSIVE StringsOfLength(_, _)
StringsOfLength(k, alphabet) ==
    IF k = 0 THEN {<<>>}
    ELSE {Append(s, ch) : s \in StringsOfLength(k - 1, alphabet), ch \in alphabet}

StringValues ==
    {StrVal(s) : s \in UNION {StringsOfLength(k, {"a", " "}) : k \in 0..MaxLen}}

\* NaN and the multiples of 1/2 from -1 to MaxBound + 1
NumberValues ==
    {NumVal(NaN)} \cup {NumVal(Hundredths(50 * k)) : k \in (-2)..(2 * MaxBound + 2)}

OptionalBounds == {Unset} \cup {Set(k) : k \in 0..MaxBound}

Rules ==
    {Validatable(value, require, minLength, maxLength, min, max) :
        value \in StringValues \cup NumberValues,
        require \in {UnsetFlag, Set(FALSE), Set(TRUE)},
        minLength \in OptionalBounds, maxLength \in OptionalBounds,
        min \in OptionalBounds, max \in OptionalBounds}

InitValidate ==
    /\ objects = <<>>
    /\ arrays = << <<>> >>
    /\ listeners = <<>>
    /\ form = clearInputs
    /\ assigned = [active |-> <<>>, finished |-> <<>>]
    /\ dom = [active |-> <<>>, finished |-> <<>>]
    /\ last = Done("load", FALSE, <<>>, NoArgs)
    /\ rule \in Rules
    /\ verdict = NoVerdict

Validate ==
    /\ ~verdict.done
    /\ verdict' = [done |-> TRUE, value |-> validate(rule)]
    /\ UNCHANGED <<objects, arrays, listeners, form, assigned, dom, last, rule>>

NextValidate == Validate

SpecValidate == InitValidate /\ [][NextValidate]_vars

----------------------------------------------------------------------------
(* The claims *)

\* the events of the last handler in which listener i was called
CallsOf(i) == {k \in 1..Len(last.log) : last.log[k].ev = "listener" /\ last.log[k].who = i}

\* the references 1..n in the order the projects were added
InsertionOrder(n) == [k \in 1..n |-> k]

\* C1: after addProject, every registered listener has been called for that
\* addition, with an array holding all projects in insertion order, the new
\* one last; and a listener has been called exactly once for each project
\* added since its registration, never for an earlier one.
C1_ListenersNotifiedOfLaterAdditionsOnly ==
    /\ last.op = "addProject" =>
          \A i \in 1..Len(listeners) :
              /\ CallsOf(i) # {}
              /\ \A k \in CallsOf(i) :
                    /\ last.log[k].arg = InsertionOrder(Len(objects))
                    /\ last.log[k].arg[Len(objects)] = last.log[1].arg[1]
    /\ \A i \in 1..Len(listeners) :
          listeners[i].calls = Len(objects) - listeners[i].regAt

C1_Witness ==
    /\ last.op = "addProject"
    /\ Len(objects) = 2
    /\ \E i \in 1..Len(listeners) : listeners[i].regAt = 1 /\ listeners[i].calls = 1
    /\ \E i \in 1..Len(listeners) : listeners[i].regAt = 0 /\ listeners[i].calls = 2

\* C2: an array a listener received and kept (without writing to it itself)
\* has, at any later time, the elements it had when it was received.
C2_KeptSnapshotUnchanged ==
    \A i \in 1..Len(listeners) :
        listeners[i].kind = "keep" =>
            \A k \in 1..Len(listeners[i].received) :
                arrays[listeners[i].received[k]] = listeners[i].seen[k]

C2_Witness ==
    \E i \in 1..Len(listeners) :
        /\ listeners[i].kind = "keep"
        /\ Len(listeners[i].received) >= 1
        /\ Len(listeners[i].seen[1]) < Len(arrays[projects])

\* C3: whatever the listeners called by addProject do with their argument,
\* the store then holds the previous projects and the new one, in order, and
\* every project it holds is as it was before the listeners ran.
C3_ListenerCannotMutateStore ==
    [][(last'.op = "addProject" /\ Len(listeners) > 0) =>
          /\ arrays'[projects] = Append(arrays[projects], Len(objects) + 1)
          /\ \A a \in 1..Len(objects) : objects'[a] = objects[a]
          /\ objects'[Len(objects) + 1].status = Active]_vars

\* C4: in any state of the store and for any arguments, addProject returns
\* with the store holding one project more: the previous ones unchanged and
\* in the same order, the last one new, with the given title, description
\* and numberOfPeople and status Active.
C4_AddProjectAppends ==
    \A a \in StoreArguments, random \in RandomNumbers :
        LET title == a.title
            desc == a.desc
            n == a.people
            st == addProject(title, desc, n, random, State)
            old == StoreProjects
            new == [k \in 1..Len(st.arrays[projects]) |->
                        st.objects[st.arrays[projects][k]]]
        IN  /\ Len(new) = Len(old) + 1
            /\ \A k \in 1..Len(old) :
                  /\ st.arrays[projects][k] = arrays[projects][k]
                  /\ new[k] = old[k]
            /\ st.arrays[projects][Len(new)] \notin 1..Len(objects)
            /\ new[Len(new)].title = title
            /\ new[Len(new)].description = desc
            /\ new[Len(new)].numberOfPeople = n
            /\ new[Len(new)].status = Active

C4_Witness ==
    /\ last.op = "addProject"
    /\ Len(StoreProjects) = 2
    /\ Len(listeners) > 0
    /\ StoreProjects[2].title = EmptyString
    /\ StoreProjects[2].numberOfPeople = NaN

\* the form's rules, as the specification states them
TitleRule(title) == Len(title) # 0
DescriptionRule(desc) == Len(desc) # 0 /\ Len(Trim(desc)) >= 5
PeopleRule(n) == NumGE(n, Num(1)) /\ NumLE(n, Num(6))
FormPasses(f) ==
    /\ TitleRule(f.title)
    /\ DescriptionRule(f.description)
    /\ PeopleRule(StringToNumber(f.people))

\* C5: a submission that fails a rule calls neither addProject nor a
\* listener, changes neither the store nor the lists nor the form fields,
\* and shows the alert.
C5_InvalidSubmitChangesNothing ==
    [][(last'.op = "submit" /\ ~FormPasses(form)) =>
          /\ last'.log = <<>>
          /\ last'.alert
          /\ objects' = objects
          /\ arrays' = arrays
          /\ listeners' = listeners
          /\ assigned' = assigned
          /\ dom' = dom
          /\ form' = form]_vars

C5_Witness ==
    /\ last.op = "submit"
    /\ last.alert
    /\ \/ form.description = <<"h", "i">> /\ TitleRule(form.title)
                                         /\ PeopleRule(StringToNumber(form.people))
       \/ form.people = <<"7">> /\ TitleRule(form.title)
                               /\ DescriptionRule(form.description)

\* C6: a submission that passes the rules adds exactly one Active project
\* with the submitted title and description and the number typed for people,
\* clears the fields, and leaves the active list showing one item per
\* project of the store, in insertion order, and the finished list empty.
C6_ValidSubmitAddsAndRenders ==
    [][(last'.op = "submit" /\ FormPasses(form)) =>
          LET old == StoreProjects
              new == StoreProjects'
          IN  /\ ~last'.alert
              /\ Len(new) = Len(old) + 1
              /\ \A k \in 1..Len(old) : new[k] = old[k]
              /\ new[Len(new)].title = form.title
              /\ new[Len(new)].description = form.description
              /\ new[Len(new)].numberOfPeople = StringToNumber(form.people)
              /\ new[Len(new)].status = Active
              /\ form' = clearInputs
              /\ Len(dom'.active) = Len(new)
              /\ \A k \in 1..Len(new) :
                    /\ dom'.active[k].id = new[k].id
                    /\ dom'.active[k].h2 = new[k].title
                    /\ dom'.active[k].h3 =
                          NumberToString(new[k].numberOfPeople) \o TeamMembers
                    /\ dom'.active[k].p = new[k].description
              /\ dom'.finished = <<>>]_vars

C6_Witness ==
    /\ last.op = "submit"
    /\ ~last.alert
    /\ last.args.title = BuildAPI
    /\ last.args.desc = DesignAndImplement
    /\ last.args.people = Num(3)
    /\ Len(StoreProjects) = 2
    /\ Len(dom.active) = 2
    /\ dom.active[2].h3 = <<"3">> \o TeamMembers

\* the checks of a rule that apply to its value, and whether each passes
RequiredApplies(r) == r.require.set /\ r.require.v
RequiredPasses(r) == Len(ValueToString(r.value)) # 0
MinLengthApplies(r) == r.minLength.set /\ r.value.t = "string"
MinLengthPasses(r) == Len(Trim(r.value.s)) >= r.minLength.v
MaxLengthApplies(r) == r.maxLength.set /\ r.value.t = "string"
MaxLengthPasses(r) == Len(Trim(r.value.s)) <= r.maxLength.v
MinApplies(r) == r.min.set /\ r.value.t = "number"
MinPasses(r) == ~r.value.n.nan /\ r.value.n.c >= 100 * r.min.v
MaxApplies(r) == r.max.set /\ r.value.t = "number"
MaxPasses(r) == ~r.value.n.nan /\ r.value.n.c <= 100 * r.max.v

\* C7: validate returns true exactly when every check that applies passes;
\* for a string with only the two length bounds set, exactly when
\* min <= trimmed length <= max; for a number with only the two numeric
\* bounds set, exactly when lo <= N <= hi.
C7_ValidateAllApplicableChecks ==
    verdict.done =>
      /\ verdict.value <=>
            /\ RequiredApplies(rule) => RequiredPasses(rule)
            /\ MinLengthApplies(rule) => MinLengthPasses(rule)
            /\ MaxLengthApplies(rule) => MaxLengthPasses(rule)
            /\ MinApplies(rule) => MinPasses(rule)
            /\ MaxApplies(rule) => MaxPasses(rule)
      /\ (/\ rule.value.t = "string" /\ ~RequiredApplies(rule)
          /\ rule.minLength.set /\ rule.maxLength.set) =>
            (verdict.value <=>
                /\ rule.minLength.v <= Len(Trim(rule.value.s))
                /\ Len(Trim(rule.value.s)) <= rule.maxLength.v)
      /\ (/\ rule.value.t = "number" /\ ~rule.value.n.nan
          /\ rule.min.set /\ rule.max.set) =>
            (verdict.value <=>
                /\ 100 * rule.min.v <= rule.value.n.c
                /\ rule.value.n.c <= 100 * rule.max.v)

C7_Witness ==
    /\ verdict.done
    /\ ~verdict.value
    /\ rule.value = StrVal(<<" ", "a", " ">>)
    /\ ~RequiredApplies(rule)
    /\ rule.minLength = Set(2)
    /\ rule.maxLength = Set(2)
    /\ rule.min = Set(1)

\* C8: every project of the store has status Active, and the finished list
\* holds and shows nothing.
C8_AllProjectsActive ==
    /\ \A k \in 1..Len(StoreProjects) : StoreProjects[k].status = Active
    /\ assigned.finished = <<>>
    /\ dom.finished = <<>>

C8_Witness ==
    /\ Len(StoreProjects) = 2
    /\ listeners[2].kind = "finished"
    /\ listeners[2].calls = 2

\* C9: what addProject did is, in this order: one push of the new project,
\* then one call of each registered listener, in registration order, each
\* with all projects; nothing else happened in between.
C9_NotifiesOnceInRegistrationOrder ==
    last.op = "addProject" =>
        /\ Len(last.log) = 1 + Len(listeners)
        /\ last.log[1] = Event("push", 0, <<Len(objects)>>)
        /\ \A i \in 1..Len(listeners) :
              last.log[1 + i] = Event("listener", i, InsertionOrder(Len(objects)))

C9_Witness ==
    /\ last.op = "addProject"
    /\ Len(listeners) = 2
    /\ listeners[1].kind # listeners[2].kind
    /\ Len(objects) = 2

\* C10: every project of the store has a non-empty title, a description of
\* trimmed length at least 5 and a whole numberOfPeople from 1 to 6.
C10_StoredProjectsSatisfyRules ==
    \A k \in 1..Len(StoreProjects) :
        /\ Len(StoreProjects[k].title) # 0
        /\ Len(Trim(StoreProjects[k].description)) >= 5
        /\ IsInteger(StoreProjects[k].numberOfPeople)
        /\ NumGE(StoreProjects[k].numberOfPeople, Num(1))
        /\ NumLE(StoreProjects[k].numberOfPeople, Num(6))

====
